---- MODULE Spec2Model ----
(***************************************************************************)
(* Model of the Case Scribe alignment service                              *)
(* (src/alignment_service/main.py): the /align request handler, the       *)
(* tokenizer, the difflib.SequenceMatcher opcode computation that          *)
(* _align_stub relies on, the lexical flagging pass, the summary and the   *)
(* corrector.                                                              *)
(*                                                                         *)
(* A text is a sequence of one-character strings.  Index ranges are kept   *)
(* 0-based and half-open as in the Python code; a[i+1] is Python's a[i].   *)
(* Confidence scores are kept in hundredths (0.75 is 75).                  *)
(***************************************************************************)
EXTENDS Integers, Sequences, FiniteSets, TLC

VARIABLES pc, USE_WHISPER, rtf_file, plain_text, audio_segments,
          transcript_text, audio_text, provider, tmp_created, tmp_exists,
          opcodes, errors, summary, corrected, response

vars == <<pc, USE_WHISPER, rtf_file, plain_text, audio_segments,
          transcript_text, audio_text, provider, tmp_created, tmp_exists,
          opcodes, errors, summary, corrected, response>>

----------------------------------------------------------------------------
(* Characters and Python's str methods used by the service.                *)

UpperChars == <<"A", "B", "C", "D", "E", "F", "G", "H", "I", "J", "K", "L", "M",
                "N", "O", "P", "Q", "R", "S", "T", "U", "V", "W", "X", "Y", "Z">>

LowerChars == <<"a", "b", "c", "d", "e", "f", "g", "h", "i", "j", "k", "l", "m",
                "n", "o", "p", "q", "r", "s", "t", "u", "v", "w", "x", "y", "z">>

DigitChars == <<"0", "1", "2", "3", "4", "5", "6", "7", "8", "9">>

Range(s) == {s[k] : k \in DOMAIN s}

WordCharSet == Range(UpperChars) \cup Range(LowerChars) \cup Range(DigitChars) \cup {"_"}

SpaceCharSet == {" ", "\t", "\n", "\r"}

\* regex class \w
IsWordChar(c) == c \in WordCharSet

\* regex class \s, and the characters str.strip() removes
IsSpaceChar(c) == c \in SpaceCharSet

LowerTable == [c \in Range(UpperChars) |->
                 LowerChars[CHOOSE k \in DOMAIN UpperChars : UpperChars[k] = c]]

\* str.lower(), one character
LowerChar(c) == IF c \in DOMAIN LowerTable THEN LowerTable[c] ELSE c

\* str.lower()
Lower(text) == [k \in DOMAIN text |-> LowerChar(text[k])]

\* Python's s[lo:hi] for 0 <= lo, on a sequence
Slice(s, lo, hi) ==
    LET h == IF hi > Len(s) THEN Len(s) ELSE hi
    IN  IF lo >= h THEN << >> ELSE [k \in 1..(h - lo) |-> s[lo + k]]

\* str.strip()
Strip(text) ==
    LET keep == {k \in DOMAIN text : ~IsSpaceChar(text[k])}
    IN  IF keep = {} THEN << >>
        ELSE LET first == CHOOSE k \in keep : \A m \in keep : k <= m
                 last  == CHOOSE k \in keep : \A m \in keep : m <= k
             IN  Slice(text, first - 1, last)

RECURSIVE JoinFrom(_, _)
JoinFrom(parts, k) ==
    IF k > Len(parts) THEN << >>
    ELSE IF k = Len(parts) THEN parts[k]
    ELSE parts[k] \o <<" ">> \o JoinFrom(parts, k + 1)

\* " ".join(parts)
Join(parts) == JoinFrom(parts, 1)

\* text[pos:].startswith(pat), pos 0-based
MatchesAt(text, pat, pos) ==
    /\ pos + Len(pat) <= Len(text)
    /\ \A k \in DOMAIN pat : text[pos + k] = pat[k]

\* pat in text
Contains(text, pat) == \E pos \in 0..(Len(text) - Len(pat)) : MatchesAt(text, pat, pos)

\* text.replace(old, new, 1): only the first occurrence is replaced
ReplaceFirst(text, old, new) ==
    LET found == {p \in 0..(Len(text) - Len(old)) : MatchesAt(text, old, p)}
    IN  IF found = {} THEN text
        ELSE LET p == CHOOSE p \in found : \A q \in found : p <= q
             IN  Slice(text, 0, p) \o new \o Slice(text, p + Len(old), Len(text))

RECURSIVE ReplaceFrom(_, _, _, _)
\* the scan of str.replace from pos: the leftmost occurrence at or after pos is
\* replaced and the scan goes on behind it
ReplaceFrom(text, old, new, pos) ==
    LET found == {p \in pos..(Len(text) - Len(old)) : MatchesAt(text, old, p)}
    IN  IF found = {} THEN Slice(text, pos, Len(text))
        ELSE LET p == CHOOSE p \in found : \A q \in found : p <= q
             IN  Slice(text, pos, p) \o new \o ReplaceFrom(text, old, new, p + Len(old))

\* text.replace(old, new) for a non-empty old: left to right, non-overlapping
Replace(text, old, new) == ReplaceFrom(text, old, new, 0)

----------------------------------------------------------------------------
(* _tokenize: re.findall(r"\w+|[^\w\s]", text)                             *)

\* end (exclusive, 0-based) of the maximal run of word characters at pos
WordEnd(text, pos) ==
    CHOOSE e \in pos..Len(text) :
        /\ \A q \in pos..(e - 1) : IsWordChar(text[q + 1])
        /\ e = Len(text) \/ ~IsWordChar(text[e + 1])

RECURSIVE TokenizeFrom(_, _)
TokenizeFrom(text, pos) ==
    IF pos >= Len(text) THEN << >>
    ELSE IF IsWordChar(text[pos + 1])
         THEN LET e == WordEnd(text, pos)
              IN  <<Slice(text, pos, e)>> \o TokenizeFrom(text, e)
         ELSE IF IsSpaceChar(text[pos + 1])
              THEN TokenizeFrom(text, pos + 1)
              ELSE <<Slice(text, pos, pos + 1)>> \o TokenizeFrom(text, pos + 1)

RECURSIVE TokenizeWordsFrom(_, _)
TokenizeWordsFrom(text, pos) ==
    IF pos >= Len(text) THEN << >>
    ELSE IF IsWordChar(text[pos + 1])
         THEN LET e == WordEnd(text, pos)
              IN  <<Slice(text, pos, e)>> \o TokenizeWordsFrom(text, e)
         ELSE TokenizeWordsFrom(text, pos + 1)

\* re.findall(r"\w+", text): punctuation is not a token
TokenizeWordsOnly(text) == TokenizeWordsFrom(text, 0)

_tokenize(text) == TokenizeFrom(text, 0)

----------------------------------------------------------------------------
(* difflib.SequenceMatcher(a=t_tokens, b=a_tokens), as _align_stub builds  *)
(* it: isjunk is None and autojunk keeps its default, True.                *)

\* SequenceMatcher's autojunk heuristic applies to b of at least this length
AutojunkMinLen == 200

RECURSIVE SortedSeq(_)
\* the members of a finite set of integers, ascending
SortedSeq(S) ==
    IF S = {} THEN << >>
    ELSE LET m == CHOOSE x \in S : \A y \in S : x <= y
         IN  <<m>> \o SortedSeq(S \ {m})

\* __chain_b: elements of b dropped from b2j as "popular"
bpopular(b) ==
    IF Len(b) >= AutojunkMinLen
    THEN {elt \in Range(b) :
            Cardinality({j \in DOMAIN b : b[j] = elt}) > (Len(b) \div 100) + 1}
    ELSE {}

\* __chain_b: no isjunk function was given, so no element is junk
bjunk(b) == {}

\* __chain_b: b2j.get(elt, nothing), the ascending 0-based indices of elt in b
b2j(b, elt) ==
    IF elt \in bjunk(b) \cup bpopular(b) THEN << >>
    ELSE SortedSeq({j \in 0..(Len(b) - 1) : b[j + 1] = elt})

\* dict.get(key, 0)
DictGet(d, key) == IF key \in DOMAIN d THEN d[key] ELSE 0

EmptyDict == [x \in {} |-> 0]

Match(i, j, k) == [a |-> i, b |-> j, size |-> k]

RECURSIVE FlmInner(_, _, _, _, _, _, _, _)
\* find_longest_match: for j in b2j.get(a[i], nothing)
FlmInner(js, n, i, blo, bhi, j2len, newj2len, best) ==
    IF n > Len(js) THEN [j2len |-> newj2len, best |-> best]
    ELSE LET j == js[n]
         IN  IF j < blo
             THEN FlmInner(js, n + 1, i, blo, bhi, j2len, newj2len, best)
             ELSE IF j >= bhi
                  THEN [j2len |-> newj2len, best |-> best]
                  ELSE LET k == DictGet(j2len, j - 1) + 1
                       IN  FlmInner(js, n + 1, i, blo, bhi, j2len,
                                    (j :> k) @@ newj2len,
                                    IF k > best.size
                                    THEN Match(i - k + 1, j - k + 1, k)
                                    ELSE best)

RECURSIVE FlmOuter(_, _, _, _, _, _, _, _)
\* find_longest_match: for i in range(alo, ahi)
FlmOuter(a, b, i, ahi, blo, bhi, j2len, best) ==
    IF i >= ahi THEN best
    ELSE LET r == FlmInner(b2j(b, a[i + 1]), 1, i, blo, bhi, j2len, EmptyDict, best)
         IN  FlmOuter(a, b, i + 1, ahi, blo, bhi, r.j2len, r.best)

RECURSIVE ExtendBack(_, _, _, _, _, _)
\* find_longest_match: the "while besti > alo and bestj > blo" loops;
\* junk says whether the loop takes junk or non-junk elements
ExtendBack(a, b, alo, blo, m, junk) ==
    IF /\ m.a > alo
       /\ m.b > blo
       /\ (b[m.b] \in bjunk(b)) = junk
       /\ a[m.a] = b[m.b]
    THEN ExtendBack(a, b, alo, blo, Match(m.a - 1, m.b - 1, m.size + 1), junk)
    ELSE m

RECURSIVE ExtendFwdNoCompare(_, _, _, _, _, _)
\* the forward loops without their a[...] == b[...] condition
ExtendFwdNoCompare(a, b, ahi, bhi, m, junk) ==
    IF /\ m.a + m.size < ahi
       /\ m.b + m.size < bhi
       /\ (b[m.b + m.size + 1] \in bjunk(b)) = junk
    THEN ExtendFwdNoCompare(a, b, ahi, bhi, Match(m.a, m.b, m.size + 1), junk)
    ELSE m

RECURSIVE ExtendFwd(_, _, _, _, _, _)
\* find_longest_match: the "while besti+bestsize < ahi and ..." loops
ExtendFwd(a, b, ahi, bhi, m, junk) ==
    IF /\ m.a + m.size < ahi
       /\ m.b + m.size < bhi
       /\ (b[m.b + m.size + 1] \in bjunk(b)) = junk
       /\ a[m.a + m.size + 1] = b[m.b + m.size + 1]
    THEN ExtendFwd(a, b, ahi, bhi, Match(m.a, m.b, m.size + 1), junk)
    ELSE m

find_longest_match(a, b, alo, ahi, blo, bhi) ==
    LET m0 == FlmOuter(a, b, alo, ahi, blo, bhi, EmptyDict, Match(alo, blo, 0))
        m1 == ExtendBack(a, b, alo, blo, m0, FALSE)
        m2 == ExtendFwd(a, b, ahi, bhi, m1, FALSE)
        m3 == ExtendBack(a, b, alo, blo, m2, TRUE)
    IN  ExtendFwd(a, b, ahi, bhi, m3, TRUE)

RECURSIVE MatchQueue(_, _, _, _)
\* get_matching_blocks: while queue (a stack: pop() takes the last entry)
MatchQueue(a, b, queue, blocks) ==
    IF queue = << >> THEN blocks
    ELSE LET q    == queue[Len(queue)]
             rest == SubSeq(queue, 1, Len(queue) - 1)
             x    == find_longest_match(a, b, q.alo, q.ahi, q.blo, q.bhi)
         IN  IF x.size # 0
             THEN MatchQueue(a, b,
                    rest
                    \o (IF q.alo < x.a /\ q.blo < x.b
                        THEN <<[alo |-> q.alo, ahi |-> x.a, blo |-> q.blo, bhi |-> x.b]>>
                        ELSE << >>)
                    \o (IF x.a + x.size < q.ahi /\ x.b + x.size < q.bhi
                        THEN <<[alo |-> x.a + x.size, ahi |-> q.ahi,
                                blo |-> x.b + x.size, bhi |-> q.bhi]>>
                        ELSE << >>),
                    Append(blocks, x))
             ELSE MatchQueue(a, b, rest, blocks)

\* tuple order of (i, j, k)
MatchLess(x, y) ==
    \/ x.a < y.a
    \/ x.a = y.a /\ x.b < y.b
    \/ x.a = y.a /\ x.b = y.b /\ x.size < y.size

RECURSIVE SortMatches(_)
\* matching_blocks.sort()
SortMatches(blocks) ==
    IF blocks = << >> THEN << >>
    ELSE LET k == CHOOSE k \in DOMAIN blocks :
                      \A m \in DOMAIN blocks : ~MatchLess(blocks[m], blocks[k])
         IN  <<blocks[k]>>
             \o SortMatches([m \in 1..(Len(blocks) - 1) |->
                               IF m < k THEN blocks[m] ELSE blocks[m + 1]])

RECURSIVE MergeAdjacent(_, _, _, _)
\* get_matching_blocks: collapse adjacent equal blocks
MergeAdjacent(blocks, n, cur, out) ==
    IF n > Len(blocks)
    THEN IF cur.size # 0 THEN Append(out, cur) ELSE out
    ELSE LET x == blocks[n]
         IN  IF cur.a + cur.size = x.a /\ cur.b + cur.size = x.b
             THEN MergeAdjacent(blocks, n + 1, Match(cur.a, cur.b, cur.size + x.size), out)
             ELSE MergeAdjacent(blocks, n + 1, x,
                                IF cur.size # 0 THEN Append(out, cur) ELSE out)

\* get_matching_blocks without the closing (la, lb, 0) block
get_matching_blocks_no_sentinel(a, b) ==
    MergeAdjacent(SortMatches(MatchQueue(a, b,
                    <<[alo |-> 0, ahi |-> Len(a), blo |-> 0, bhi |-> Len(b)]>>, << >>)),
                  1, Match(0, 0, 0), << >>)

get_matching_blocks(a, b) ==
    LET found  == MatchQueue(a, b,
                             <<[alo |-> 0, ahi |-> Len(a), blo |-> 0, bhi |-> Len(b)]>>,
                             << >>)
        sorted == SortMatches(found)
    IN  Append(MergeAdjacent(sorted, 1, Match(0, 0, 0), << >>), Match(Len(a), Len(b), 0))

Opcode(tag, i1, i2, j1, j2) == [tag |-> tag, i1 |-> i1, i2 |-> i2, j1 |-> j1, j2 |-> j2]

RECURSIVE OpcodesFromSwapped(_, _, _, _, _)
\* get_opcodes with the delete and insert tags exchanged
OpcodesFromSwapped(blocks, n, i, j, answer) ==
    IF n > Len(blocks) THEN answer
    ELSE LET x   == blocks[n]
             tag == IF i < x.a /\ j < x.b THEN "replace"
                    ELSE IF i < x.a THEN "insert"
                    ELSE IF j < x.b THEN "delete"
                    ELSE ""
             a1  == IF tag # "" THEN Append(answer, Opcode(tag, i, x.a, j, x.b)) ELSE answer
             a2  == IF x.size # 0
                    THEN Append(a1, Opcode("equal", x.a, x.a + x.size, x.b, x.b + x.size))
                    ELSE a1
         IN  OpcodesFromSwapped(blocks, n + 1, x.a + x.size, x.b + x.size, a2)

RECURSIVE OpcodesFrom(_, _, _, _, _)
\* get_opcodes: for ai, bj, size in self.get_matching_blocks()
OpcodesFrom(blocks, n, i, j, answer) ==
    IF n > Len(blocks) THEN answer
    ELSE LET x   == blocks[n]
             tag == IF i < x.a /\ j < x.b THEN "replace"
                    ELSE IF i < x.a THEN "delete"
                    ELSE IF j < x.b THEN "insert"
                    ELSE ""
             a1  == IF tag # "" THEN Append(answer, Opcode(tag, i, x.a, j, x.b)) ELSE answer
             a2  == IF x.size # 0
                    THEN Append(a1, Opcode("equal", x.a, x.a + x.size, x.b, x.b + x.size))
                    ELSE a1
         IN  OpcodesFrom(blocks, n + 1, x.a + x.size, x.b + x.size, a2)

get_opcodes(a, b) == OpcodesFrom(get_matching_blocks(a, b), 1, 0, 0, << >>)

----------------------------------------------------------------------------
(* _align_stub, _grammar_spell_flags, the summary and the corrector.       *)

\* the [:80] slices of _align_stub
TruncLen == 80

\* confidence of a replace/delete discrepancy, 0.75
ConfMismatch == 75

\* confidence of an insert discrepancy, 0.7
ConfInsert == 70

\* confidence of a spelling discrepancy, 0.95
ConfSpelling == 95

\* confidenceScore of a report with discrepancies, 0.8
ScoreWithErrors == 80

\* confidenceScore of a report without discrepancies, 0.95
ScoreNoErrors == 95

\* processingTime, 7.2, in tenths
ProcessingTime == 72

Missing == <<"(", "m", "i", "s", "s", "i", "n", "g", ")">>

Remove == <<"(", "r", "e", "m", "o", "v", "e", ")">>

ErrorItem(line, column, original, suggested, confidence, type) ==
    [line |-> line, column |-> column, original |-> original,
     suggested |-> suggested, confidence |-> confidence, type |-> type]

\* t_tokens = _tokenize(transcript_text.lower())
t_tokens(text) == _tokenize(Lower(text))

\* a_tokens = _tokenize(audio_text.lower())
a_tokens(text) == _tokenize(Lower(text))

\* sm.get_opcodes() for sm = difflib.SequenceMatcher(a=t_tokens, b=a_tokens)
sm_opcodes(ttext, atext) == get_opcodes(t_tokens(ttext), a_tokens(atext))

\* original = " ".join(t_tokens[i1:i2])[:80]
OriginalOf(tt, op) == Slice(Join(Slice(tt, op.i1, op.i2)), 0, TruncLen)

\* suggested = " ".join(a_tokens[j1:j2])[:80]
SuggestedOf(at, op) == Slice(Join(Slice(at, op.j1, op.j2)), 0, TruncLen)

RECURSIVE AlignLoopElse(_, _, _, _, _, _, _)
\* the loop with a plain else for its second branch: equal opcodes are reported too
AlignLoopElse(ops, n, tt, at, line, col, errs) ==
    IF n > Len(ops) THEN errs
    ELSE LET op == ops[n]
         IN  IF op.tag = "replace" \/ op.tag = "delete"
             THEN LET original  == OriginalOf(tt, op)
                      suggested == SuggestedOf(at, op)
                  IN  AlignLoopElse(ops, n + 1, tt, at, line, col + 1,
                        Append(errs,
                          ErrorItem(line, col,
                                    IF original # << >> THEN original ELSE Missing,
                                    IF suggested # << >> THEN suggested ELSE Remove,
                                    ConfMismatch, "audio_mismatch")))
             ELSE AlignLoopElse(ops, n + 1, tt, at, line, col + 1,
                    Append(errs,
                      ErrorItem(line, col, Missing, SuggestedOf(at, op),
                                ConfInsert, "audio_mismatch")))

RECURSIVE AlignLoop(_, _, _, _, _, _, _)
\* _align_stub: for tag, i1, i2, j1, j2 in sm.get_opcodes()
AlignLoop(ops, n, tt, at, line, col, errs) ==
    IF n > Len(ops) THEN errs
    ELSE LET op == ops[n]
         IN  IF op.tag = "replace" \/ op.tag = "delete"
             THEN LET original  == OriginalOf(tt, op)
                      suggested == SuggestedOf(at, op)
                  IN  AlignLoop(ops, n + 1, tt, at, line, col + 1,
                        Append(errs,
                          ErrorItem(line, col,
                                    IF original # << >> THEN original ELSE Missing,
                                    IF suggested # << >> THEN suggested ELSE Remove,
                                    ConfMismatch, "audio_mismatch")))
             ELSE IF op.tag = "insert"
                  THEN AlignLoop(ops, n + 1, tt, at, line, col + 1,
                         Append(errs,
                           ErrorItem(line, col, Missing, SuggestedOf(at, op),
                                     ConfInsert, "audio_mismatch")))
                  ELSE AlignLoop(ops, n + 1, tt, at, line, col, errs)

_align_stub(ttext, atext) ==
    AlignLoop(sm_opcodes(ttext, atext), 1, t_tokens(ttext), a_tokens(atext), 1, 1, << >>)

\* the (bad, good) pairs of _grammar_spell_flags, in their order
KnownErrors ==
    << [bad  |-> <<"c", "o", "u", "n", "c", "e", "l", "o", "r">>,
        good |-> <<"c", "o", "u", "n", "s", "e", "l", "o", "r">>],
       [bad  |-> <<"i", "n", "a", "d", "m", "i", "s", "s", "a", "b", "l", "e">>,
        good |-> <<"i", "n", "a", "d", "m", "i", "s", "s", "i", "b", "l", "e">>] >>

RECURSIVE FlagsFrom(_, _)
FlagsFrom(text, n) ==
    IF n > Len(KnownErrors) THEN << >>
    ELSE (IF Contains(text, KnownErrors[n].bad)
          THEN <<ErrorItem(1, 1, KnownErrors[n].bad, KnownErrors[n].good,
                           ConfSpelling, "spelling")>>
          ELSE << >>)
         \o FlagsFrom(text, n + 1)

_grammar_spell_flags(text) == FlagsFrom(text, 1)

RECURSIVE ByTypeFromNoCount(_, _, _)
\* the loop with by_type[e.type] = 1
ByTypeFromNoCount(errs, n, by_type) ==
    IF n > Len(errs) THEN by_type
    ELSE ByTypeFromNoCount(errs, n + 1, (errs[n].type :> 1) @@ by_type)

RECURSIVE ByTypeFrom(_, _, _)
\* for e in errors: by_type[e.type] = by_type.get(e.type, 0) + 1
ByTypeFrom(errs, n, by_type) ==
    IF n > Len(errs) THEN by_type
    ELSE ByTypeFrom(errs, n + 1,
                    (errs[n].type :> (DictGet(by_type, errs[n].type) + 1)) @@ by_type)

Summary(errs) ==
    [totalErrors     |-> Len(errs),
     byType          |-> ByTypeFrom(errs, 1, EmptyDict),
     confidenceScore |-> IF errs # << >> THEN ScoreWithErrors ELSE ScoreNoErrors,
     processingTime  |-> ProcessingTime]

\* transcript_text.replace("councelor", "counselor").replace("inadmissable", "inadmissible")
Corrected(text) ==
    Replace(Replace(text, KnownErrors[1].bad, KnownErrors[1].good),
            KnownErrors[2].bad, KnownErrors[2].good)

----------------------------------------------------------------------------
(* Requests.  An uploaded rich-text file is given by its decoded bytes and *)
(* by what rtf_to_text makes of them (a text, or an exception); the audio  *)
(* file is given by the segments the speech model hears in it.             *)

\* longest token sequence of the enumerated reference and observed texts
MaxTokens == 4

\* most fragments concatenated into an enumerated reference text
MaxFrags == 3

\* number of ten-letter tokens of the long text (its join exceeds TruncLen)
LongTokens == 8

NoText == [present |-> FALSE, text |-> << >>]

SomeText(t) == [present |-> TRUE, text |-> t]

NoFile == [present |-> FALSE, raw |-> << >>, throws |-> FALSE, extracted |-> << >>]

Segment(words, text) == [words |-> words, text |-> text]

SeqsUpTo(S, n) == UNION {[1..k -> S] : k \in 0..n}

RECURSIVE Concat(_, _)
\* the concatenation of a sequence of texts
Concat(parts, k) == IF k > Len(parts) THEN << >> ELSE parts[k] \o Concat(parts, k + 1)

\* reference words: one of them upper-case
RefWords == {<<"a">>, <<"B">>}

\* words as a speech model reports them, with their leading blank
ObsWords == {<<" ", "a">>, <<" ", "b">>}

\* one segment carrying the words, or no segment when nothing was heard
SegmentsOfWords(ws) == IF ws = << >> THEN << >> ELSE <<Segment(ws, Concat(ws, 1))>>

TokenCases ==
    {[ref |-> Join(r), segs |-> SegmentsOfWords(o)] :
        r \in SeqsUpTo(RefWords, MaxTokens), o \in SeqsUpTo(ObsWords, MaxTokens)}

Fragments ==
    { <<"c", "o", "u", "n", "c", "e", "l", "o", "r">>,
      <<"i", "n", "a", "d", "m", "i", "s", "s", "a", "b", "l", "e">>,
      <<"c", "o", "u", "n">>,
      <<"c", "e", "l", "o", "r">>,
      <<"i", "n", "a", "d", "m", "i", "s", "s">>,
      <<"a", "b", "l", "e">> }

LexCases ==
    {[ref  |-> Concat(f, 1),
      segs |-> <<Segment(<< >>, <<"c", "o", "u", "n", "s", "e", "l", "o", "r">>)>>] :
        f \in SeqsUpTo(Fragments, MaxFrags)}

TheCouncelorSpoke ==
    <<"T", "h", "e", " ", "c", "o", "u", "n", "c", "e", "l", "o", "r", " ",
      "s", "p", "o", "k", "e", ".">>

TheCounselorSpokeWords ==
    << <<"T", "h", "e">>,
       <<"c", "o", "u", "n", "s", "e", "l", "o", "r">>,
       <<"s", "p", "o", "k", "e">> >>

HelloWorld == <<"H", "e", "l", "l", "o", " ", "w", "o", "r", "l", "d", ".">>

LongText == Join([k \in 1..LongTokens |-> [c \in 1..10 |-> "X"]])

ScenarioCases ==
    { [ref |-> TheCouncelorSpoke, segs |-> SegmentsOfWords(TheCounselorSpokeWords)],
      [ref |-> HelloWorld, segs |-> << >>],
      [ref |-> HelloWorld, segs |-> <<Segment(<< >>, <<" ">> \o Lower(HelloWorld))>>],
      [ref |-> <<" ">>, segs |-> SegmentsOfWords(TheCounselorSpokeWords)],
      [ref |-> LongText, segs |-> << >>],
      [ref |-> <<"Q">>, segs |-> <<Segment(<< >>, LongText)>>] }

Cases == TokenCases \cup LexCases \cup ScenarioCases

\* the three ways a reference text reaches the service, and the request without one
Uploads(ref) ==
    { [rtf_file |-> NoFile, plain_text |-> SomeText(ref)],
      [rtf_file |-> [present |-> TRUE, raw |-> ref, throws |-> TRUE, extracted |-> << >>],
       plain_text |-> NoText],
      [rtf_file |-> [present |-> TRUE, raw |-> <<"{">> \o ref \o <<"}">>,
                     throws |-> FALSE, extracted |-> ref],
       plain_text |-> NoText] }

NoUpload == [rtf_file |-> NoFile, plain_text |-> NoText]

NoSummary == [totalErrors |-> 0, byType |-> EmptyDict, confidenceScore |-> 0,
              processingTime |-> 0]

NoResponse == [status |-> 0, errors |-> << >>, summary |-> NoSummary,
               correctedTranscript |-> << >>]

Init ==
    /\ pc = "start"
    /\ USE_WHISPER \in BOOLEAN
    /\ \E c \in Cases :
         /\ audio_segments = c.segs
         /\ \E u \in Uploads(c.ref) \cup {NoUpload} :
              /\ rtf_file = u.rtf_file
              /\ plain_text = u.plain_text
    /\ transcript_text = << >>
    /\ audio_text = << >>
    /\ provider = "not_called"
    /\ tmp_created = FALSE
    /\ tmp_exists = FALSE
    /\ opcodes = << >>
    /\ errors = << >>
    /\ summary = NoSummary
    /\ corrected = << >>
    /\ response = NoResponse

----------------------------------------------------------------------------
(* align_endpoint                                                          *)

\* 1) rtf_file is given: rtf_to_text, or the raw text when it throws
LoadRtf ==
    /\ pc = "start"
    /\ rtf_file.present
    /\ transcript_text' = Strip(IF rtf_file.throws THEN rtf_file.raw ELSE rtf_file.extracted)
    /\ pc' = "transcribe"
    /\ UNCHANGED <<USE_WHISPER, rtf_file, plain_text, audio_segments, audio_text, provider,
                   tmp_created, tmp_exists, opcodes, errors, summary, corrected, response>>

\* 1) elif plain_text: a non-empty plain_text
LoadPlain ==
    /\ pc = "start"
    /\ ~rtf_file.present
    /\ plain_text.present /\ plain_text.text # << >>
    /\ transcript_text' = Strip(plain_text.text)
    /\ pc' = "transcribe"
    /\ UNCHANGED <<USE_WHISPER, rtf_file, plain_text, audio_segments, audio_text, provider,
                   tmp_created, tmp_exists, opcodes, errors, summary, corrected, response>>

\* 1) else: 400, "No transcript provided"
RejectNoTranscript ==
    /\ pc = "start"
    /\ ~rtf_file.present
    /\ ~(plain_text.present /\ plain_text.text # << >>)
    /\ response' = [NoResponse EXCEPT !.status = 400]
    /\ pc' = "done"
    /\ UNCHANGED <<USE_WHISPER, rtf_file, plain_text, audio_segments, transcript_text,
                   audio_text, provider, tmp_created, tmp_exists, opcodes, errors, summary,
                   corrected>>

\* 2) USE_WHISPER is False: audio_text stays ""
SkipWhisper ==
    /\ pc = "transcribe"
    /\ ~USE_WHISPER
    /\ audio_text' = << >>
    /\ provider' = "unavailable"
    /\ pc' = "align"
    /\ UNCHANGED <<USE_WHISPER, rtf_file, plain_text, audio_segments, transcript_text,
                   tmp_created, tmp_exists, opcodes, errors, summary, corrected, response>>

\* 2) WhisperModel(...) throws: the except branch sets audio_text = ""
LoadModelFails ==
    /\ pc = "transcribe"
    /\ USE_WHISPER
    /\ audio_text' = << >>
    /\ provider' = "load_throws"
    /\ pc' = "align"
    /\ UNCHANGED <<USE_WHISPER, rtf_file, plain_text, audio_segments, transcript_text,
                   tmp_created, tmp_exists, opcodes, errors, summary, corrected, response>>

\* 2) the model loads and the audio bytes are written to a NamedTemporaryFile(delete=False)
WriteTmp ==
    /\ pc = "transcribe"
    /\ USE_WHISPER
    /\ tmp_created' = TRUE
    /\ tmp_exists' = TRUE
    /\ pc' = "transcribing"
    /\ UNCHANGED <<USE_WHISPER, rtf_file, plain_text, audio_segments, transcript_text,
                   audio_text, provider, opcodes, errors, summary, corrected, response>>

\* the handler without its except branch: the exception ends the request
TranscribeFailsPropagates ==
    /\ pc = "transcribing"
    /\ provider' = "transcribe_throws"
    /\ response' = [NoResponse EXCEPT !.status = 500]
    /\ pc' = "done"
    /\ UNCHANGED <<USE_WHISPER, rtf_file, plain_text, audio_segments, transcript_text,
                   audio_text, tmp_created, tmp_exists, opcodes, errors, summary, corrected>>

\* 2) model.transcribe, or the iteration over its segments, throws:
\*    the except branch sets audio_text = "" and os.remove is not reached
TranscribeFails ==
    /\ pc = "transcribing"
    /\ audio_text' = << >>
    /\ provider' = "transcribe_throws"
    /\ pc' = "align"
    /\ UNCHANGED <<USE_WHISPER, rtf_file, plain_text, audio_segments, transcript_text,
                   tmp_created, tmp_exists, opcodes, errors, summary, corrected, response>>

RECURSIVE WordsFrom(_, _)
\* for seg in segments: the words of seg, or seg.text when it has none
WordsFrom(segs, n) ==
    IF n > Len(segs) THEN << >>
    ELSE (IF segs[n].words # << >> THEN segs[n].words ELSE <<segs[n].text>>)
         \o WordsFrom(segs, n + 1)

\* 2) audio_text = " ".join(words).strip()
TranscribeOk ==
    /\ pc = "transcribing"
    /\ audio_text' = Strip(Join(WordsFrom(audio_segments, 1)))
    /\ provider' = IF audio_text' = << >> THEN "no_words" ELSE "ok"
    /\ pc' = "remove"
    /\ UNCHANGED <<USE_WHISPER, rtf_file, plain_text, audio_segments, transcript_text,
                   tmp_created, tmp_exists, opcodes, errors, summary, corrected, response>>

\* 2) os.remove(tmp_path)
RemoveTmp ==
    /\ pc = "remove"
    /\ tmp_exists' = FALSE
    /\ pc' = "align"
    /\ UNCHANGED <<USE_WHISPER, rtf_file, plain_text, audio_segments, transcript_text,
                   audio_text, provider, tmp_created, opcodes, errors, summary, corrected,
                   response>>

\* 2) os.remove(tmp_path) throws and the exception is passed over
RemoveTmpFails ==
    /\ pc = "remove"
    /\ pc' = "align"
    /\ UNCHANGED <<USE_WHISPER, rtf_file, plain_text, audio_segments, transcript_text,
                   audio_text, provider, tmp_created, tmp_exists, opcodes, errors, summary,
                   corrected, response>>

\* 3) to 5) alignment, flags, summary, corrected transcript, response
Analyze ==
    /\ pc = "align"
    /\ opcodes' = sm_opcodes(transcript_text, audio_text)
    /\ errors' = _align_stub(transcript_text, audio_text)
                   \o _grammar_spell_flags(transcript_text)
    /\ summary' = Summary(errors')
    /\ corrected' = Corrected(transcript_text)
    /\ response' = [status |-> 200, errors |-> errors', summary |-> summary',
                    correctedTranscript |-> corrected']
    /\ pc' = "done"
    /\ UNCHANGED <<USE_WHISPER, rtf_file, plain_text, audio_segments, transcript_text,
                   audio_text, provider, tmp_created, tmp_exists>>

Next ==
    \/ LoadRtf
    \/ LoadPlain
    \/ RejectNoTranscript
    \/ SkipWhisper
    \/ LoadModelFails
    \/ WriteTmp
    \/ TranscribeFails
    \/ TranscribeOk
    \/ RemoveTmp
    \/ RemoveTmpFails
    \/ Analyze

Spec == Init /\ [][Next]_vars

----------------------------------------------------------------------------
(* Properties                                                              *)

\* the request went through alignment, flagging, summary and correction
Analyzed == pc = "done" /\ response.status = 200

\* the token sequences _align_stub compared
RefTokens == t_tokens(transcript_text)

ObsTokens == a_tokens(audio_text)

\* the discrepancies _align_stub returned (the lexical ones follow them)
Mismatches == SelectSeq(errors, LAMBDA e : e.type = "audio_mismatch")

\* the opcodes that are not equal, in their order
EditOps == SelectSeq(opcodes, LAMBDA op : op.tag # "equal")

RangesChain(ops) ==
    /\ ops # << >> =>
         /\ ops[1].i1 = 0
         /\ ops[1].j1 = 0
         /\ ops[Len(ops)].i2 = Len(RefTokens)
         /\ ops[Len(ops)].j2 = Len(ObsTokens)
    /\ ops = << >> => Len(RefTokens) = 0 /\ Len(ObsTokens) = 0
    /\ \A k \in DOMAIN ops :
         /\ ops[k].i1 <= ops[k].i2
         /\ ops[k].j1 <= ops[k].j2
         /\ ops[k].i1 < ops[k].i2 \/ ops[k].j1 < ops[k].j2
         /\ k < Len(ops) => ops[k + 1].i1 = ops[k].i2 /\ ops[k + 1].j1 = ops[k].j2

RECURSIVE SortedKinds(_)
\* the members of a finite set of kinds as a sequence
SortedKinds(S) ==
    IF S = {} THEN << >>
    ELSE LET m == CHOOSE x \in S : TRUE
         IN  <<m>> \o SortedKinds(S \ {m})

\* C1: the opcode ranges [i1,i2) are consecutive and cover [0, len(ref)) exactly,
\* and the ranges [j1,j2) likewise cover [0, len(obs)), without gap or overlap.
C1_Partition == Analyzed => RangesChain(opcodes)

C1_Witness ==
    /\ Analyzed
    /\ Len(opcodes) >= 4
    /\ \E k \in DOMAIN opcodes : opcodes[k].tag = "replace"
    /\ opcodes[Len(opcodes)].tag = "delete"

RECURSIVE SumSeq(_, _)
SumSeq(s, k) == IF k > Len(s) THEN 0 ELSE s[k] + SumSeq(s, k + 1)

\* tokens covered by equal opcodes
EqualTotal == SumSeq([k \in DOMAIN opcodes |->
                        IF opcodes[k].tag = "equal" THEN opcodes[k].i2 - opcodes[k].i1 ELSE 0], 1)

Max(x, y) == IF x >= y THEN x ELSE y

RECURSIVE LcsRow(_, _, _, _, _)
\* one row of the longest-common-subsequence table: cur[j+1] is the entry of column j
LcsRow(a, b, i, prev, cur) ==
    IF Len(cur) > Len(b) THEN cur
    ELSE LET j == Len(cur)
         IN  LcsRow(a, b, i, prev,
                    Append(cur, IF a[i] = b[j] THEN prev[j] + 1
                                ELSE Max(prev[j + 1], cur[j])))

RECURSIVE LcsRows(_, _, _, _)
LcsRows(a, b, i, prev) ==
    IF i > Len(a) THEN prev[Len(b) + 1]
    ELSE LcsRows(a, b, i + 1, LcsRow(a, b, i, prev, <<0>>))

\* length of a longest common subsequence
LcsLen(a, b) == LcsRows(a, b, 1, [j \in 1..(Len(b) + 1) |-> 0])

\* length of the longest run of tokens common to a and b
LongestBlockLen(a, b) ==
    LET lens == {n \in 0..Len(a) :
                   \E i \in 0..(Len(a) - n), j \in 0..(Len(b) - n) :
                      Slice(a, i, i + n) = Slice(b, j, j + n) /\ j + n <= Len(b)}
    IN  CHOOSE n \in lens : \A m \in lens : m <= n

\* C2, as claimed: the tokens covered by equal opcodes number as many as a
\* longest common subsequence of the two token sequences.
C2_Minimal == Analyzed => EqualTotal = LcsLen(RefTokens, ObsTokens)

\* C2, amended: every equal opcode covers identical token runs, the equal opcodes
\* cover at most as many tokens as a longest common subsequence and, for an
\* observed sequence below the autojunk length, at least as many as the longest
\* common run of tokens.
C2_Bounded ==
    Analyzed =>
      /\ \A k \in DOMAIN opcodes :
           opcodes[k].tag = "equal" =>
             Slice(RefTokens, opcodes[k].i1, opcodes[k].i2)
               = Slice(ObsTokens, opcodes[k].j1, opcodes[k].j2)
      /\ EqualTotal <= LcsLen(RefTokens, ObsTokens)
      /\ Len(ObsTokens) < AutojunkMinLen =>
           EqualTotal >= LongestBlockLen(RefTokens, ObsTokens)

C2_Witness ==
    /\ Analyzed
    /\ EqualTotal > 0
    /\ EqualTotal < LcsLen(RefTokens, ObsTokens)

\* C3, as claimed: aligning a token sequence against itself yields exactly one
\* equal opcode covering it, whatever its length, and no discrepancy.
C3_IdentityAnyLength ==
    (Analyzed /\ RefTokens = ObsTokens) =>
      /\ opcodes = <<Opcode("equal", 0, Len(RefTokens), 0, Len(ObsTokens))>>
      /\ Mismatches = << >>

\* C3, amended: aligning a non-empty token sequence against itself yields exactly
\* one equal opcode covering it, aligning the empty sequence against itself
\* yields no opcode, and in both cases _align_stub returns no discrepancy.
C3_Identity ==
    (Analyzed /\ RefTokens = ObsTokens) =>
      /\ RefTokens # << >> =>
           opcodes = <<Opcode("equal", 0, Len(RefTokens), 0, Len(ObsTokens))>>
      /\ RefTokens = << >> => opcodes = << >>
      /\ Mismatches = << >>

C3_Witness ==
    /\ Analyzed
    /\ RefTokens = ObsTokens
    /\ Len(RefTokens) >= 3
    /\ RefTokens[1] = RefTokens[2]
    /\ transcript_text # audio_text

\* C4: an empty reference against a non-empty observed text gives one insert
\* opcode and one discrepancy with original "(missing)" and confidence 0.70; a
\* non-empty reference against an empty observed text gives one delete opcode and
\* one discrepancy with suggested "(remove)" and confidence 0.75; two empty
\* texts give no opcode and no discrepancy.
C4_EmptySide ==
    Analyzed =>
      /\ (RefTokens = << >> /\ ObsTokens # << >>) =>
           /\ opcodes = <<Opcode("insert", 0, 0, 0, Len(ObsTokens))>>
           /\ Len(Mismatches) = 1
           /\ Mismatches[1].original = Missing
           /\ Mismatches[1].suggested = Slice(Join(ObsTokens), 0, TruncLen)
           /\ Mismatches[1].confidence = 70
      /\ (RefTokens # << >> /\ ObsTokens = << >>) =>
           /\ opcodes = <<Opcode("delete", 0, Len(RefTokens), 0, 0)>>
           /\ Len(Mismatches) = 1
           /\ Mismatches[1].suggested = Remove
           /\ Mismatches[1].confidence = 75
      /\ (RefTokens = << >> /\ ObsTokens = << >>) =>
           /\ opcodes = << >>
           /\ Mismatches = << >>

C4_Witness ==
    /\ Analyzed
    /\ RefTokens = << >>
    /\ Len(ObsTokens) >= 2
    /\ provider = "ok"

\* C5: the original field of every replace or delete discrepancy is the
\* space-joined reference tokens of [i1,i2) in the case the reference text has
\* them, cut to 80 characters.
C5_OriginalCase ==
    Analyzed =>
      \A k \in DOMAIN EditOps :
        EditOps[k].tag \in {"replace", "delete"} =>
          Mismatches[k].original
            = Slice(Join(Slice(_tokenize(transcript_text), EditOps[k].i1, EditOps[k].i2)),
                    0, TruncLen)

C5_Witness ==
    /\ Analyzed
    /\ transcript_text = HelloWorld
    /\ audio_text = << >>
    /\ Len(Mismatches) = 1
    /\ Mismatches[1].original
         = <<"h", "e", "l", "l", "o", " ", "w", "o", "r", "l", "d", " ", ".">>
    /\ Mismatches[1].suggested = Remove

\* the request of the scenario: reference "The councelor spoke.", observed
\* "The counselor spoke"
CouncelorScenario ==
    /\ Analyzed
    /\ transcript_text = TheCouncelorSpoke
    /\ audio_text = Join(TheCounselorSpokeWords)

TheCounselorSpokeDot ==
    <<"T", "h", "e", " ", "c", "o", "u", "n", "s", "e", "l", "o", "r", " ",
      "s", "p", "o", "k", "e", ".">>

\* C6, as claimed: the scenario yields one audio_mismatch (0.75) and one spelling
\* (0.95) discrepancy, totalErrors 2, byType {audio_mismatch: 1, spelling: 1},
\* confidenceScore 0.80 and the corrected text "The counselor spoke.".
C6_TwoErrors ==
    CouncelorScenario =>
      /\ Len(errors) = 2
      /\ errors[1].type = "audio_mismatch" /\ errors[1].confidence = 75
      /\ errors[2].type = "spelling" /\ errors[2].confidence = 95
      /\ summary.totalErrors = 2
      /\ summary.byType = [audio_mismatch |-> 1, spelling |-> 1]
      /\ summary.confidenceScore = 80
      /\ corrected = TheCounselorSpokeDot

\* C6, amended: the scenario yields two audio_mismatch discrepancies (0.75 each:
\* "councelor" replaced by "counselor", and the final "." deleted, with
\* suggested "(remove)") followed by one spelling discrepancy (0.95), totalErrors
\* 3, byType {audio_mismatch: 2, spelling: 1}, confidenceScore 0.80 and the
\* corrected text "The counselor spoke.".
C6_ThreeErrors ==
    CouncelorScenario =>
      /\ errors = << ErrorItem(1, 1, KnownErrors[1].bad, KnownErrors[1].good,
                               75, "audio_mismatch"),
                     ErrorItem(1, 2, <<".">>, Remove, 75, "audio_mismatch"),
                     ErrorItem(1, 1, KnownErrors[1].bad, KnownErrors[1].good,
                               95, "spelling") >>
      /\ summary.totalErrors = 3
      /\ summary.byType = [audio_mismatch |-> 2, spelling |-> 1]
      /\ summary.confidenceScore = 80
      /\ corrected = TheCounselorSpokeDot
      /\ response.errors = errors
      /\ response.summary = summary
      /\ response.correctedTranscript = corrected

C6_Witness == CouncelorScenario /\ provider = "ok" /\ ~tmp_exists

\* C7: the lexical flagging pass finds nothing in the corrector's output.
C7_CorrectedClean == Analyzed => _grammar_spell_flags(corrected) = << >>

C7_Witness ==
    /\ Analyzed
    /\ Len(_grammar_spell_flags(transcript_text)) = 2
    /\ Len(corrected) > Len(KnownErrors[1].bad) + Len(KnownErrors[2].bad)

\* C8: the byType values sum to totalErrors, which is the length of the
\* discrepancy list, and the keys of byType are the kinds that occur.
C8_CountConsistent ==
    Analyzed =>
      /\ summary.totalErrors = Len(errors)
      /\ SumSeq([k \in 1..Cardinality(DOMAIN summary.byType) |->
                   summary.byType[SortedKinds(DOMAIN summary.byType)[k]]], 1)
           = summary.totalErrors
      /\ DOMAIN summary.byType = {errors[k].type : k \in DOMAIN errors}
      /\ \A t \in DOMAIN summary.byType :
           summary.byType[t] = Cardinality({k \in DOMAIN errors : errors[k].type = t})
      /\ \A k \in DOMAIN errors :
           errors[k].type = "audio_mismatch" =>
             \A m \in 1..k : errors[m].type = "audio_mismatch"

C8_Witness ==
    /\ Analyzed
    /\ Len(Mismatches) >= 2
    /\ Len(errors) = Len(Mismatches) + 1

TranscriptSupplied == rtf_file.present \/ (plain_text.present /\ plain_text.text # << >>)

ProviderFailed == provider \in {"unavailable", "load_throws", "transcribe_throws", "no_words"}

\* C9: with a transcript supplied, a speech provider that is unavailable, throws
\* or returns no words leaves the observed text empty, and the request still
\* ends with a report (status 200), computed against the empty observed text.
C9_ProviderTolerated ==
    /\ (pc \in {"align", "done"} /\ ProviderFailed) => audio_text = << >>
    /\ (pc = "done" /\ TranscriptSupplied) =>
         /\ response.status = 200
         /\ provider # "not_called"
         /\ response.errors = errors
         /\ response.summary = summary
         /\ response.correctedTranscript = corrected
         /\ summary.totalErrors = Len(errors)
         /\ (ProviderFailed /\ RefTokens # << >>) =>
              /\ Len(Mismatches) = 1
              /\ Mismatches[1].suggested = Remove

C9_Witness ==
    /\ pc = "done"
    /\ provider = "transcribe_throws"
    /\ response.status = 200
    /\ Len(RefTokens) >= 2
    /\ summary.totalErrors >= 1

\* C10: no temporary audio file the request created is left when it has produced
\* its response.
C10_TmpRemoved == (pc = "done" /\ tmp_created) => ~tmp_exists

====
